---------------------------- MODULE Spec2Model ----------------------------
(***************************************************************************)
(* A model of audiblez's settings store (src/audiblez/settings.py) and of  *)
(* the job orchestration of its wx user interface (src/audiblez/ui.py).    *)
(*                                                                         *)
(* Several specifications share the module:                                *)
(*   SpecSettings  the Settings object: capability probing, engine         *)
(*                 fallback, load/merge of the persisted file, setters;    *)
(*   SpecStore     SpecSettings with save_settings, the other setters, the *)
(*                 close handler and later constructions from the file;    *)
(*   SpecRuntime   the capability probes on a torch runtime whose answers  *)
(*                 may change while the program runs;                      *)
(*   Spec          the MainWindow observer, its CoreThread workers and the *)
(*                 wx event queue between them;                            *)
(*   SpecEdit      Spec with row selection and text-area editing added;    *)
(*   SpecDevice    Spec on a machine with CUDA, with the engine radio      *)
(*                 buttons; SpecStats: Spec with the worker's statistics;  *)
(*   SpecPreview   the Preview button, on_preview_chapter and its worker   *)
(*                 threads; SpecPreviewFair adds the threads' scheduling,  *)
(*                 SpecPreviewSelect the choice of voice and speed.        *)
(* Visual layout is not modelled: the UI model starts from a MainWindow    *)
(* whose construction has completed, with no document opened.              *)
(***************************************************************************)
EXTENDS Integers, Sequences, FiniteSets, TLC

(***************************************************************************)
(* Bounds of the model (not program constants).                            *)
(***************************************************************************)
\* chapters per opened document
NChapters == 2
\* documents opened (open_epub calls) in one run of the program; every
\* start needs a start button open_epub has built, so this also bounds the
\* CoreThreads of a run
MaxOpens == 2
\* events posted and not yet handled: how far a worker may run ahead of
\* the observer in the schedules explored
MaxQueue == 2
\* preview requests (on_preview_chapter calls) in one run of the program
MaxPreviews == 2

VARIABLES
    \* ---- torch runtime, as probed by settings.py ----
    cuda_is_available,      \* torch.cuda.is_available()
    mps_is_available,       \* torch.backends.mps.is_available()
    \* ---- Settings object ----
    defaults,               \* self.defaults (top-level dict)
    settings,               \* self.settings (top-level dict)
    window_obj,             \* the dict object built at settings.py:19-22
    settings_file,          \* content of ~/.audiblez/settings.yaml
    ret,                    \* the last call on the Settings object and its result
    \* ---- MainWindow (observer) ----
    synthesis_in_progress,  \* self.synthesis_in_progress
    session,                \* number of open_epub calls so far; 0: no document
    chapter_text,           \* heap of chapter objects: extracted_text
    is_selected,            \* heap of chapter objects: is_selected
    selected_chapter,       \* self.selected_chapter (index into the document)
    table_status,           \* column 3 of self.table
    checkboxes_enabled,     \* self.table check boxes
    start_button_enabled,   \* self.start_button
    params_panel_enabled,   \* self.params_panel
    preview_button_enabled, \* the Preview button of the layout now shown
    default_device,         \* torch's process-wide default device
    engine_radio,           \* the engine radio button that is checked
    progress_bar,           \* self.progress_bar's value
    selected_voice,         \* self.selected_voice (a label of the voice dropdown)
    selected_speed,         \* self.selected_speed (tenths)
    call_after,             \* deferred calls queued by wx.CallAfter
    \* ---- the main thread and the preview worker threads ----
    observer_pc,            \* where the main (observer) thread is: "idle" between
                            \* handlers, "join" blocked in on_preview_chapter
    preview_threads,        \* self.preview_threads
    preview_workers,        \* preview Thread objects, by creation number
    preview_requested,      \* per preview thread: lang_code, which its closure
                            \* holds, and (history) the text, voice and speed
                            \* selected when on_preview_chapter ran
    preview_used,           \* per preview thread: the text, voice and speed
                            \* generate_preview has read
    \* ---- CoreThread workers and the wx event queue ----
    threads,                \* CoreThread objects, by creation number
    event_queue,            \* events posted with wx.PostEvent, not yet handled
    stats,                  \* per job: progress in the worker's statistics object
    \* ---- observation logs (history, not program state) ----
    published,              \* per job: events post_event has published
    handled,                \* per job: events the observer has handled
    progress_log            \* per job: stats.progress at each CORE_PROGRESS
                            \* published and not yet handled

settingsVars == <<cuda_is_available, mps_is_available, defaults, settings,
                  window_obj, settings_file, ret>>

uiVars == <<synthesis_in_progress, session, chapter_text, is_selected,
            selected_chapter, table_status, checkboxes_enabled,
            start_button_enabled, params_panel_enabled,
            preview_button_enabled, call_after,
            threads, event_queue, published, handled,
            default_device, engine_radio, stats, progress_bar, progress_log,
            selected_voice, selected_speed>>

previewVars == <<observer_pc, preview_threads, preview_workers,
                 preview_requested, preview_used>>

\* The active device and the radio buttons that choose it.
deviceVars == <<default_device, engine_radio>>

\* The voice and speed chosen in the parameters panel.
selectionVars == <<selected_voice, selected_speed>>

\* The worker's statistics and what the observer shows of them.
statsVars == <<stats, progress_bar, progress_log>>

vars == <<settingsVars, uiVars, previewVars>>

(***************************************************************************)
(*                       settings.py: the Settings object                  *)
(***************************************************************************)

\* Engine names a caller may pass; "invalid" is the unknown name of
\* test_engine_availability.py.
EngineNames == {"cpu", "cuda", "apple", "invalid"}

\* Settings.get_available_engines
get_available_engines ==
    [e \in {"cpu", "cuda", "apple"} |->
        CASE e = "cpu"   -> TRUE
          [] e = "cuda"  -> cuda_is_available
          [] e = "apple" -> mps_is_available]

\* A plausible slip: the elif order swapped.
get_best_available_engine_CudaFirst ==
    IF cuda_is_available THEN "cuda"
    ELSE IF mps_is_available THEN "apple"
    ELSE "cpu"

\* Settings.get_best_available_engine
get_best_available_engine ==
    IF mps_is_available THEN "apple"
    ELSE IF cuda_is_available THEN "cuda"
    ELSE "cpu"

\* Settings._get_default_engine
get_default_engine == get_best_available_engine

\* A plausible slip: membership tested, availability not.
validate_engine_NoAvailabilityTest(engine) ==
    LET available_engines == get_available_engines IN
    IF engine \in DOMAIN available_engines
    THEN engine
    ELSE get_best_available_engine

\* Settings._validate_engine
validate_engine(engine) ==
    LET available_engines == get_available_engines IN
    IF engine \in DOMAIN available_engines /\ available_engines[engine]
    THEN engine
    ELSE get_best_available_engine


(***************************************************************************)
(* Dictionaries.  A top-level settings dict is a function from key names   *)
(* to values.  The value under "window" is a record: WindowRef is a        *)
(* reference to the dict object built in __init__ (window_obj), a "dict"   *)
(* record is a dict literal read from the file, WindowScalar a non-dict    *)
(* value (a number, null).  self.defaults.copy() is a shallow copy: the    *)
(* copy's "window" is the same object as the defaults' "window".           *)
(***************************************************************************)
WindowRef == [tag |-> "ref"]

WindowScalar == [tag |-> "scalar"]

WindowDict(items) == [tag |-> "dict", items |-> items]

\* The persisted file.  parse tells what open and yaml.safe_load make of it:
\* "dict" a mapping (data; an empty or null document counts as {}, by the
\* "or {}" of settings.py:77), "scalar" a document that is not a mapping (a
\* number, a string, a list), "error" a file that cannot be read or parsed.
NoFile == [exists |-> FALSE, parse |-> "none", data |-> <<>>]

YamlFile(data) == [exists |-> TRUE, parse |-> "dict", data |-> data]

UnreadableFile == [exists |-> TRUE, parse |-> "error", data |-> <<>>]

ScalarFile == [exists |-> TRUE, parse |-> "scalar", data |-> <<>>]

\* An engine value that is not hashable (a YAML list or mapping, as in
\* "engine: [cuda]").
UnhashableEngine == "unhashable"

\* The persisted files the model starts from: none, an empty one, broken
\* ones, and files giving subsets of the keys.
FileWindows ==
    {WindowDict([k \in {"width"} |-> 1024]),
     WindowDict([k \in {"width", "height"} |-> IF k = "width" THEN 1024 ELSE 768]),
     WindowScalar}

FileContents ==
    {NoFile, YamlFile(<<>>), UnreadableFile, ScalarFile}
    \cup {YamlFile([k \in {"engine"} |-> e]) : e \in EngineNames \cup {UnhashableEngine}}
    \cup {YamlFile([k \in {"window"} |-> w]) : w \in FileWindows}
    \cup {YamlFile([k \in {"engine", "window"} |-> IF k = "engine" THEN e ELSE w]) :
            e \in {"cuda", UnhashableEngine}, w \in FileWindows}
    \cup {YamlFile([k \in {"voice"} |-> "Amy"]),
          YamlFile([k \in {"window", "voice", "speed"} |->
                      CASE k = "window" -> WindowDict([i \in {"height"} |-> 768])
                        [] k = "voice"  -> "Amy"
                        [] k = "speed"  -> 15]),
          YamlFile([k \in {"window", "engine", "voice", "speed", "output_folder"} |->
                      CASE k = "window"        -> WindowDict([i \in {"width", "height"} |->
                                                     IF i = "width" THEN 1024 ELSE 768])
                        [] k = "engine"        -> "apple"
                        [] k = "voice"         -> "Amy"
                        [] k = "speed"         -> 15
                        [] k = "output_folder" -> "books"])}

\* The dict literal of Settings.__init__ (settings.py:18-27); voice None is
\* written "None", speed 1.0 is written 10 (tenths).
InitialWindow == [k \in {"width", "height"} |-> IF k = "width" THEN 800 ELSE 600]

InitialDefaults ==
    [k \in {"window", "engine", "voice", "speed", "output_folder"} |->
        CASE k = "window"        -> WindowRef
          [] k = "engine"        -> get_default_engine
          [] k = "voice"         -> "None"
          [] k = "speed"         -> 10
          [] k = "output_folder" -> "cwd"]

\* A plausible slip: no recursion, every value of update_dict replaces the
\* value of base_dict.
deep_update_NoRecursion(base_dict, win, update_dict) ==
    [top |-> [k \in DOMAIN base_dict \cup DOMAIN update_dict |->
                IF k \in DOMAIN update_dict THEN update_dict[k] ELSE base_dict[k]],
     win |-> win]

\* Settings._deep_update on (base_dict, the object WindowRef points to,
\* update_dict): the new base_dict and the new content of that object.
deep_update(base_dict, win, update_dict) ==
    LET recurse(k) == /\ k = "window"
                      /\ update_dict[k].tag = "dict"
                      /\ k \in DOMAIN base_dict
                      /\ base_dict[k].tag \in {"ref", "dict"}
        items == update_dict["window"].items
        merged(d) == [k \in DOMAIN d \cup DOMAIN items |->
                        IF k \in DOMAIN items THEN items[k] ELSE d[k]]
    IN  [top |-> [k \in DOMAIN base_dict \cup DOMAIN update_dict |->
                    IF k \in DOMAIN update_dict
                    THEN IF recurse(k)
                         THEN IF base_dict[k].tag = "ref"
                              THEN base_dict[k]
                              ELSE WindowDict(merged(base_dict[k].items))
                         ELSE update_dict[k]
                    ELSE base_dict[k]],
         win |-> IF /\ "window" \in DOMAIN update_dict
                    /\ recurse("window")
                    /\ base_dict["window"].tag = "ref"
                 THEN merged(win)
                 ELSE win]

\* Settings._load_settings: the dict it returns, the content of the window
\* object afterwards, and whether the warning of the except branch was
\* printed.  Exceptions inside the try: open or yaml.safe_load fails;
\* _deep_update calls .items() on a document that is not a mapping;
\* _validate_engine tests "engine in available_engines" with an unhashable
\* engine (TypeError), which happens after _deep_update has run.  The except
\* branch returns self.defaults.copy(), a shallow copy whose "window" is the
\* object _deep_update may have written to.
load_settings(dflt, win, file) ==
    IF ~file.exists
    THEN [top |-> dflt, win |-> win, warned |-> FALSE]
    ELSE IF file.parse \in {"error", "scalar"}
    THEN [top |-> dflt, win |-> win, warned |-> TRUE]
    ELSE LET loaded_settings == file.data
             merged == deep_update(dflt, win, loaded_settings)
         IN  IF "engine" \in DOMAIN merged.top /\ merged.top["engine"] = UnhashableEngine
             THEN [top |-> dflt, win |-> merged.win, warned |-> TRUE]
             ELSE [top |-> IF "engine" \in DOMAIN merged.top
                           THEN [merged.top EXCEPT !["engine"] = validate_engine(@)]
                           ELSE merged.top,
                   win |-> merged.win,
                   warned |-> FALSE]

\* A call of _validate_engine, as test_engine_availability.py makes it.
CallValidateEngine(engine) ==
    /\ ret' = [op |-> "_validate_engine", arg |-> engine, val |-> validate_engine(engine)]
    /\ UNCHANGED <<cuda_is_available, mps_is_available, defaults, settings,
                   window_obj, settings_file>>

\* A call of get_best_available_engine.
CallGetBestAvailableEngine ==
    /\ ret' = [op |-> "get_best_available_engine", arg |-> "", val |-> get_best_available_engine]
    /\ UNCHANGED <<cuda_is_available, mps_is_available, defaults, settings,
                   window_obj, settings_file>>

\* A plausible slip: the requested name stored without validation.
set_engine_StoresRequested(engine) ==
    /\ IF engine \in {"cpu", "cuda", "apple"}
       THEN settings' = [settings EXCEPT !["engine"] = engine]
       ELSE UNCHANGED settings
    /\ ret' = [op |-> "set_engine", arg |-> engine, val |-> ""]
    /\ UNCHANGED <<cuda_is_available, mps_is_available, defaults,
                   window_obj, settings_file>>

\* Settings.set_engine
set_engine(engine) ==
    /\ IF engine \in {"cpu", "cuda", "apple"}
       THEN settings' = [settings EXCEPT !["engine"] = validate_engine(engine)]
       ELSE UNCHANGED settings
    /\ ret' = [op |-> "set_engine", arg |-> engine, val |-> ""]
    /\ UNCHANGED <<cuda_is_available, mps_is_available, defaults,
                   window_obj, settings_file>>

\* Settings.get_engine
get_engine ==
    /\ ret' = [op |-> "get_engine", arg |-> "",
               val |-> IF "engine" \in DOMAIN settings THEN settings["engine"] ELSE "cpu"]
    /\ UNCHANGED <<cuda_is_available, mps_is_available, defaults, settings,
                   window_obj, settings_file>>

\* The names class Settings defines (settings.py:16-166).
SettingsMethods ==
    {"__init__", "get_available_engines", "get_best_available_engine",
     "_get_default_engine", "_validate_engine", "_load_settings", "_deep_update",
     "save_settings", "get_window_size", "get_engine", "get_voice", "get_speed",
     "get_output_folder", "set_window_size", "set_engine", "set_voice",
     "set_speed", "set_output_folder"}

\* The observer's calls self.settings.get_console_height() (ui.py:272) and
\* self.settings.set_console_height(...) (ui.py:313, 684): an attribute the
\* Settings object does not have raises AttributeError.
CallConsoleHeight(method) ==
    /\ ret' = [op |-> method, arg |-> "",
               val |-> IF method \in SettingsMethods THEN "" ELSE "AttributeError"]
    /\ UNCHANGED <<cuda_is_available, mps_is_available, defaults, settings,
                   window_obj, settings_file>>

\* Settings.__init__: the state after construction, for every answer of the
\* torch runtime and every persisted file of FileContents.
InitSettings ==
    /\ cuda_is_available \in BOOLEAN
    /\ mps_is_available \in BOOLEAN
    /\ settings_file \in FileContents
    /\ defaults = InitialDefaults
    /\ LET loaded == load_settings(InitialDefaults, InitialWindow, settings_file)
       IN  /\ settings = loaded.top
           /\ window_obj = loaded.win
           /\ ret = [op |-> "__init__", arg |-> "",
                     val |-> IF loaded.warned THEN "Warning" ELSE ""]

(***************************************************************************)
(* The persisted file is written by save_settings only; a later            *)
(* construction of a Settings object (the next run of the program, or the  *)
(* Settings() of test_engine_availability.py) loads what was saved.        *)
(***************************************************************************)

\* Window sizes, voices, speeds (tenths) and folders the observer passes to
\* the setters.
WindowSizes == {<<1280, 720>>}

VoiceNames == {"Amy"}

SpeedValues == {15}

FolderNames == {"books"}

\* What happens to the file operations of save_settings: "ok" all succeed,
\* "open_fails" mkdir or open raises (the file is not touched),
\* "write_fails" the file was opened for writing, which truncates it, and
\* the dump raises before it is complete.
SaveOutcomes == {"ok", "open_fails", "write_fails"}

\* yaml.safe_dump(self.settings, ...): the document written for a settings
\* dict; the window object is written by value.
dump_settings(top, win) ==
    YamlFile([k \in DOMAIN top |->
                IF k = "window" /\ top[k].tag = "ref"
                THEN WindowDict(win)
                ELSE top[k]])

\* The file contents save_settings can leave behind.
files_after_save(io, file, top, win) ==
    CASE io = "ok"          -> {dump_settings(top, win)}
      [] io = "open_fails"  -> {file}
      [] io = "write_fails" -> {YamlFile(<<>>), UnreadableFile}

\* A plausible slip: no except branch, the exception reaches the caller.
save_result_Raises(io) ==
    IF io = "ok" THEN "True" ELSE "OSError"

\* What save_settings returns.
save_result(io) ==
    IF io = "ok" THEN "True" ELSE "False"

\* Settings.save_settings
save_settings(io) ==
    /\ settings_file' \in files_after_save(io, settings_file, settings, window_obj)
    /\ ret' = [op |-> "save_settings", arg |-> io, val |-> save_result(io)]
    /\ UNCHANGED <<cuda_is_available, mps_is_available, defaults, settings,
                   window_obj>>

\* Settings.set_window_size on (self.settings, the object WindowRef points
\* to): item assignment on the value under "window".  raised: that value is
\* not a dict (a number or null read from the file), the assignment raises
\* TypeError.
window_size_set(top, win, size) ==
    LET sized(d) == [k \in DOMAIN d \cup {"width", "height"} |->
                        CASE k = "width"  -> size[1]
                          [] k = "height" -> size[2]
                          [] OTHER        -> d[k]]
    IN  IF "window" \notin DOMAIN top
        THEN [top |-> [k \in DOMAIN top \cup {"window"} |->
                          IF k = "window" THEN WindowDict(sized(<<>>)) ELSE top[k]],
              win |-> win, raised |-> FALSE]
        ELSE CASE top["window"].tag = "ref" ->
                    [top |-> top, win |-> sized(win), raised |-> FALSE]
               [] top["window"].tag = "dict" ->
                    [top |-> [top EXCEPT !["window"] = WindowDict(sized(@.items))],
                     win |-> win, raised |-> FALSE]
               [] OTHER ->
                    [top |-> top, win |-> win, raised |-> TRUE]

\* Settings.set_window_size
set_window_size(size) ==
    LET set == window_size_set(settings, window_obj, size)
    IN  /\ settings' = set.top
        /\ window_obj' = set.win
        /\ ret' = [op |-> "set_window_size", arg |-> "",
                   val |-> IF set.raised THEN "TypeError" ELSE ""]
        /\ UNCHANGED <<cuda_is_available, mps_is_available, defaults, settings_file>>

\* self.settings[key] = value
item_set(top, key, value) ==
    [k \in DOMAIN top \cup {key} |-> IF k = key THEN value ELSE top[k]]

\* Settings.set_voice
set_voice(voice) ==
    /\ settings' = item_set(settings, "voice", voice)
    /\ ret' = [op |-> "set_voice", arg |-> voice, val |-> ""]
    /\ UNCHANGED <<cuda_is_available, mps_is_available, defaults, window_obj,
                   settings_file>>

\* Settings.set_speed
set_speed(speed) ==
    /\ settings' = item_set(settings, "speed", speed)
    /\ ret' = [op |-> "set_speed", arg |-> "", val |-> ""]
    /\ UNCHANGED <<cuda_is_available, mps_is_available, defaults, window_obj,
                   settings_file>>

\* Settings.set_output_folder
set_output_folder(folder) ==
    /\ settings' = item_set(settings, "output_folder", folder)
    /\ ret' = [op |-> "set_output_folder", arg |-> folder, val |-> ""]
    /\ UNCHANGED <<cuda_is_available, mps_is_available, defaults, window_obj,
                   settings_file>>

\* A call of get_available_engines.
CallGetAvailableEngines ==
    /\ ret' = [op |-> "get_available_engines", arg |-> "", val |-> get_available_engines]
    /\ UNCHANGED <<cuda_is_available, mps_is_available, defaults, settings,
                   window_obj, settings_file>>

\* A plausible slip: the load writes the validated settings back.
Settings_init_WritesBack ==
    LET loaded == load_settings(InitialDefaults, InitialWindow, settings_file)
    IN  /\ defaults' = InitialDefaults
        /\ settings' = loaded.top
        /\ window_obj' = loaded.win
        /\ settings_file' = dump_settings(loaded.top, loaded.win)
        /\ ret' = [op |-> "__init__", arg |-> "",
                   val |-> IF loaded.warned THEN "Warning" ELSE ""]
        /\ UNCHANGED <<cuda_is_available, mps_is_available>>

\* Settings.__init__ on the file as it is now: a Settings object built
\* later on the same machine.  mkdir(exist_ok=True) creates the directory,
\* not the file.
Settings_init ==
    LET loaded == load_settings(InitialDefaults, InitialWindow, settings_file)
    IN  /\ defaults' = InitialDefaults
        /\ settings' = loaded.top
        /\ window_obj' = loaded.win
        /\ ret' = [op |-> "__init__", arg |-> "",
                   val |-> IF loaded.warned THEN "Warning" ELSE ""]
        /\ UNCHANGED <<cuda_is_available, mps_is_available, settings_file>>

\* A change of what the torch runtime answers while the program runs (a GPU
\* that is lost or comes back after a driver reset).
runtime_changes ==
    /\ cuda_is_available' \in BOOLEAN
    /\ mps_is_available' \in BOOLEAN
    /\ <<cuda_is_available', mps_is_available'>> # <<cuda_is_available, mps_is_available>>
    /\ UNCHANGED <<defaults, settings, window_obj, settings_file, ret>>

\* MainWindow._save_current_settings and on_close: everything runs inside
\* one try; the first call that raises ends it in the except branch, which
\* prints a warning.  radio is the engine radio button that is checked.
\* main_splitter exists in every constructed MainWindow (ui.py:247), so
\* set_console_height is always called.
on_close(size, radio, voice, speed, folder, io) ==
    LET sized == window_size_set(settings, window_obj, size)
        all_set == item_set(item_set(item_set(
                       [sized.top EXCEPT !["engine"] = validate_engine(radio)],
                       "voice", voice), "speed", speed), "output_folder", folder)
    IN  IF sized.raised \/ "set_console_height" \notin SettingsMethods
        THEN /\ settings' = sized.top
             /\ window_obj' = sized.win
             /\ ret' = [op |-> "on_close", arg |-> io, val |-> "Warning"]
             /\ UNCHANGED <<cuda_is_available, mps_is_available, defaults,
                            settings_file>>
        ELSE /\ settings' = all_set
             /\ window_obj' = sized.win
             /\ settings_file' \in files_after_save(io, settings_file, all_set, sized.win)
             /\ ret' = [op |-> "on_close", arg |-> io, val |-> ""]
             /\ UNCHANGED <<cuda_is_available, mps_is_available, defaults>>

(***************************************************************************)
(*             ui.py: MainWindow, CoreThread and the wx event queue        *)
(***************************************************************************)
Chapters == 1..NChapters

Docs == 1..MaxOpens

Jobs == 1..MaxOpens

\* What a text area can hold, as far as the model tells texts apart; "" is
\* the empty text.
TextValues == {"orig", "edited", ""}

\* Column 3 of the chapters table: empty until on_start or an event sets it.
Pending == ""

\* The event types of EVENTS (ui.py:31-37).
EventTypes == {"CORE_STARTED", "CORE_PROGRESS", "CORE_CHAPTER_STARTED",
               "CORE_CHAPTER_FINISHED", "CORE_FINISHED"}

\* An event object as post_event builds it; job is the CoreThread that
\* published it (kept for the observation logs, the program has no such field).
Event(type, job, chapter_index) ==
    [type |-> type, job |-> job, chapter_index |-> chapter_index]

\* A CoreThread not created yet.
NoThread ==
    [state |-> "none", doc |-> 0, selected_chapters |-> <<>>, pc |-> 0,
     text_read |-> [c \in Chapters |-> "unread"]]

\* CoreThread objects created so far.
nthreads == Cardinality({j \in Jobs : threads[j].state # "none"})

\* CoreThreads started and not yet ended.
RunningJobs == {j \in Jobs : threads[j].state = "running"}

\* Preview worker threads of a run, by creation number.
Previews == 1..MaxPreviews

\* A preview Thread not created yet.  button is the session whose Preview
\* button the thread's closure holds; waited tells whether the handler that
\* started it had to wait in join.
NoPreview == [state |-> "none", button |-> 0, waited |-> FALSE]

\* The labels of the voice dropdown, "flag name" (ui.py:560-563); the first
\* is the default voice.
VoiceLabels == {"us af_sky", "gb bf_emma"}

FirstVoiceLabel == "us af_sky"

\* MainWindow.get_selected_voice: selected_voice.split(' ')[1], the name
\* without the flag.
get_selected_voice(label) ==
    CASE label = "us af_sky"  -> "af_sky"
      [] label = "gb bf_emma" -> "bf_emma"

\* The language code on_preview_chapter derives, get_selected_voice()[0].
lang_code_of(label) ==
    CASE get_selected_voice(label) = "af_sky"  -> "a"
      [] get_selected_voice(label) = "bf_emma" -> "b"

\* What a preview thread has not read or been given yet.
NoSelection == [text |-> "unread", voice |-> "unread", speed |-> 0, lang_code |-> "unread"]

\* MainWindow.__init__ (ui.py:118-122), no document opened.
InitUI ==
    /\ synthesis_in_progress = FALSE
    /\ session = 0
    /\ chapter_text = [d \in Docs |-> [c \in Chapters |-> "orig"]]
    /\ is_selected = [d \in Docs |-> [c \in Chapters |-> FALSE]]
    /\ selected_chapter = 0
    /\ table_status = [c \in Chapters |-> Pending]
    /\ checkboxes_enabled = FALSE
    /\ start_button_enabled = FALSE
    /\ params_panel_enabled = FALSE
    /\ preview_button_enabled = FALSE
    /\ default_device = "cpu"
    /\ engine_radio = "none"
    /\ stats = [j \in Jobs |-> 0]
    /\ progress_bar = 0
    /\ progress_log = [j \in Jobs |-> <<>>]
    /\ selected_voice = "unset"
    /\ selected_speed = 0
    /\ preview_requested = [p \in Previews |-> NoSelection]
    /\ preview_used = [p \in Previews |-> NoSelection]
    /\ observer_pc = "idle"
    /\ preview_threads = <<>>
    /\ preview_workers = [p \in Previews |-> NoPreview]
    /\ call_after = <<>>
    /\ threads = [j \in Jobs |-> NoThread]
    /\ event_queue = <<>>
    /\ published = [j \in Jobs |-> <<>>]
    /\ handled = [j \in Jobs |-> <<>>]

\* MainWindow.on_open with a file chosen in the dialog: refused with a
\* message box while synthesis_in_progress, else open_epub is deferred.
on_open ==
    /\ session + Len(call_after) < MaxOpens
    /\ IF synthesis_in_progress
       THEN UNCHANGED call_after
       ELSE call_after' = Append(call_after, "open_epub")
    /\ UNCHANGED <<synthesis_in_progress, session, chapter_text, is_selected,
                   selected_chapter, table_status, checkboxes_enabled,
                   start_button_enabled, params_panel_enabled,
                   preview_button_enabled, deviceVars, selectionVars, statsVars,
                   threads, event_queue, published, handled>>

\* The device name torch.set_default_device is given for an engine
\* (ui.py:538-546, 665-670).
torch_device(engine) ==
    CASE engine = "apple" -> "mps"
      [] engine = "cuda"  -> "cuda"
      [] OTHER            -> "cpu"

\* create_params_panel: the radio button checked for the saved engine.
saved_engine_radio ==
    LET saved_engine == IF "engine" \in DOMAIN settings THEN settings["engine"] ELSE "cpu"
    IN  IF saved_engine \in {"apple", "cuda"} THEN saved_engine ELSE "cpu"

\* MainWindow._on_engine_changed, bound to the radio buttons: the user
\* checks another engine.  A radio button of a disabled panel, or of an
\* engine the machine lacks (disabled at ui.py:521-531), cannot be clicked.
on_engine_changed(engine) ==
    /\ session > 0
    /\ params_panel_enabled
    /\ get_available_engines[engine]
    /\ engine_radio # engine
    /\ engine_radio' = engine
    /\ default_device' = torch_device(engine)
    /\ UNCHANGED <<synthesis_in_progress, session, chapter_text, is_selected,
                   selected_chapter, table_status, checkboxes_enabled,
                   start_button_enabled, params_panel_enabled,
                   preview_button_enabled, call_after,
                   threads, event_queue, published, handled, statsVars,
                   selectionVars>>

\* create_params_panel (ui.py:566-572): the saved voice if the dropdown has
\* it, the first voice otherwise.
default_voice ==
    IF "voice" \in DOMAIN settings /\ settings["voice"] \in VoiceLabels
    THEN settings["voice"]
    ELSE FirstVoiceLabel

\* MainWindow.on_select_voice, bound to the voice dropdown of the
\* parameters panel.
on_select_voice(voice) ==
    /\ session > 0
    /\ params_panel_enabled
    /\ selected_voice # voice
    /\ selected_voice' = voice
    /\ UNCHANGED <<synthesis_in_progress, session, chapter_text, is_selected,
                   selected_chapter, table_status, checkboxes_enabled,
                   start_button_enabled, params_panel_enabled,
                   preview_button_enabled, call_after,
                   threads, event_queue, published, handled, deviceVars, statsVars,
                   selected_speed>>

\* MainWindow.on_select_speed, bound to the speed text field.
on_select_speed(speed) ==
    /\ session > 0
    /\ params_panel_enabled
    /\ selected_speed # speed
    /\ selected_speed' = speed
    /\ UNCHANGED <<synthesis_in_progress, session, chapter_text, is_selected,
                   selected_chapter, table_status, checkboxes_enabled,
                   start_button_enabled, params_panel_enabled,
                   preview_button_enabled, call_after,
                   threads, event_queue, published, handled, deviceVars, statsVars,
                   selected_voice>>

\* MainWindow.open_epub, run from the deferred-call queue.  good_chapters is
\* the extraction collaborator's choice, a non-empty set of chapters.  The
\* layout is rebuilt: a new table, a new (enabled) start button and
\* parameters panel.
open_epub(good_chapters) ==
    /\ call_after # <<>>
    /\ Head(call_after) = "open_epub"
    /\ call_after' = Tail(call_after)
    /\ session' = session + 1
    /\ chapter_text' = [chapter_text EXCEPT ![session + 1] = [c \in Chapters |-> "orig"]]
    /\ is_selected' = [is_selected EXCEPT ![session + 1] = [c \in Chapters |-> c \in good_chapters]]
    /\ selected_chapter' = CHOOSE c \in good_chapters : \A o \in good_chapters : c <= o
    /\ table_status' = [c \in Chapters |-> Pending]
    /\ checkboxes_enabled' = TRUE
    /\ start_button_enabled' = TRUE
    /\ params_panel_enabled' = TRUE
    /\ preview_button_enabled' = TRUE
    /\ engine_radio' = saved_engine_radio
    /\ default_device' = torch_device(saved_engine_radio)
    /\ selected_voice' = default_voice
    /\ selected_speed' = settings["speed"]
    /\ UNCHANGED <<synthesis_in_progress, threads, event_queue, published, handled,
                   statsVars>>

\* MainWindow.on_table_checked / on_table_unchecked (the user toggles a row).
on_table_checked(index) ==
    /\ session > 0
    /\ checkboxes_enabled
    /\ ~is_selected[session][index]
    /\ is_selected' = [is_selected EXCEPT ![session][index] = TRUE]
    /\ UNCHANGED <<synthesis_in_progress, session, chapter_text,
                   selected_chapter, table_status, checkboxes_enabled,
                   start_button_enabled, params_panel_enabled,
                   preview_button_enabled, deviceVars, selectionVars, statsVars, call_after,
                   threads, event_queue, published, handled>>

on_table_unchecked(index) ==
    /\ session > 0
    /\ checkboxes_enabled
    /\ is_selected[session][index]
    /\ is_selected' = [is_selected EXCEPT ![session][index] = FALSE]
    /\ UNCHANGED <<synthesis_in_progress, session, chapter_text,
                   selected_chapter, table_status, checkboxes_enabled,
                   start_button_enabled, params_panel_enabled,
                   preview_button_enabled, deviceVars, selectionVars, statsVars, call_after,
                   threads, event_queue, published, handled>>

\* MainWindow.on_table_selected: the row becomes the chapter under edit; the
\* text area is set to its text (the EVT_TEXT this raises writes the same
\* text back).
on_table_selected(index) ==
    /\ session > 0
    /\ selected_chapter # index
    /\ selected_chapter' = index
    /\ UNCHANGED <<synthesis_in_progress, session, chapter_text, is_selected,
                   table_status, checkboxes_enabled,
                   start_button_enabled, params_panel_enabled,
                   preview_button_enabled, deviceVars, selectionVars, statsVars, call_after,
                   threads, event_queue, published, handled>>

\* The EVT_TEXT handler of the text area (ui.py:419): the user's text is
\* assigned to the selected chapter object's extracted_text.
on_text_changed(value) ==
    /\ session > 0
    /\ chapter_text[session][selected_chapter] # value
    /\ chapter_text' = [chapter_text EXCEPT ![session][selected_chapter] = value]
    /\ UNCHANGED <<synthesis_in_progress, session, is_selected,
                   selected_chapter, table_status, checkboxes_enabled,
                   start_button_enabled, params_panel_enabled,
                   preview_button_enabled, deviceVars, selectionVars, statsVars, call_after,
                   threads, event_queue, published, handled>>

\* The chapters of a document in document order.
DocOrder == [c \in Chapters |-> c]

\* A plausible slip: the status is written to every row of the table.
set_table_chapter_status_EveryRow(table, chapter_index, status) ==
    [c \in DOMAIN table |-> status]

\* MainWindow.set_table_chapter_status
set_table_chapter_status(table, chapter_index, status) ==
    [table EXCEPT ![chapter_index] = status]

\* MainWindow.on_start (the start button's handler; a disabled button sends
\* no event).  The params handed to the CoreThread hold the chapter objects
\* themselves (doc and index name them in chapter_text), not copies.
on_start ==
    /\ session > 0
    /\ start_button_enabled
    /\ LET selected_chapters == SelectSeq(DocOrder, LAMBDA c : is_selected[session][c])
           job == nthreads + 1
       IN  /\ synthesis_in_progress' = TRUE
           /\ start_button_enabled' = FALSE
           /\ params_panel_enabled' = FALSE
           /\ checkboxes_enabled' = FALSE
           /\ table_status' = [c \in Chapters |->
                                 IF is_selected[session][c] THEN "Planned" ELSE table_status[c]]
           /\ threads' = [threads EXCEPT ![job] =
                            [state |-> "running", doc |-> session,
                             selected_chapters |-> selected_chapters, pc |-> 1,
                             text_read |-> [c \in Chapters |-> "unread"]]]
    /\ UNCHANGED <<session, chapter_text, is_selected, selected_chapter,
                   preview_button_enabled, deviceVars, selectionVars, statsVars, call_after, event_queue,
                   published, handled>>

\* A slip a queue could have: the newest event is delivered first.
post_event_Lifo(queue, event) == <<event>> \o queue

\* CoreThread.post_event: the event object is queued with wx.PostEvent for the
\* top window and the call returns.
post_event(queue, event) == Append(queue, event)

\* core.main(**params, post_event=...), the job entry point CoreThread.run
\* calls.  Its code is not part of the sources at hand; the sequence of
\* events it publishes is the one the specification gives: CORE_STARTED, then
\* per selected chapter, in the order of the list it was given,
\* CORE_CHAPTER_STARTED, CORE_PROGRESS, CORE_CHAPTER_FINISHED, then
\* CORE_FINISHED.
core_main_events(selected_chapters) ==
    LET per(c) == <<[type |-> "CORE_CHAPTER_STARTED", chapter_index |-> c],
                    [type |-> "CORE_PROGRESS", chapter_index |-> 0],
                    [type |-> "CORE_CHAPTER_FINISHED", chapter_index |-> c]>>
        body[n \in 0..Len(selected_chapters)] ==
            IF n = 0 THEN <<>> ELSE body[n - 1] \o per(selected_chapters[n])
    IN  <<[type |-> "CORE_STARTED", chapter_index |-> 0]>>
        \o body[Len(selected_chapters)]
        \o <<[type |-> "CORE_FINISHED", chapter_index |-> 0]>>

\* One step of a running CoreThread inside core.main: it publishes its next
\* event.  On reaching a chapter it reads the chapter object's text; with
\* the last event core.main returns and the thread ends.
core_step(job) ==
    /\ threads[job].state = "running"
    /\ Len(event_queue) < MaxQueue
    /\ LET t == threads[job]
           script == core_main_events(t.selected_chapters)
           e == script[t.pc]
           event == Event(e.type, job, e.chapter_index)
       IN  /\ event_queue' = post_event(event_queue, event)
           /\ published' = [published EXCEPT ![job] = Append(@, event)]
           /\ threads' = [threads EXCEPT ![job] =
                 [t EXCEPT !.pc = t.pc + 1,
                           !.state = IF t.pc = Len(script) THEN "finished" ELSE "running",
                           !.text_read = IF e.type = "CORE_CHAPTER_STARTED"
                                         THEN [@ EXCEPT ![e.chapter_index] =
                                                 chapter_text[t.doc][e.chapter_index]]
                                         ELSE @]]
           /\ progress_log' = IF e.type = "CORE_PROGRESS"
                              THEN [progress_log EXCEPT ![job] = Append(@, stats[job])]
                              ELSE progress_log
    /\ UNCHANGED <<synthesis_in_progress, session, chapter_text, is_selected,
                   selected_chapter, table_status, checkboxes_enabled,
                   start_button_enabled, params_panel_enabled,
                   preview_button_enabled, deviceVars, selectionVars, call_after,
                   handled, stats, progress_bar>>

\* The worker updates its statistics object while it synthesizes (per the
\* specification the statistics are mutable and worker-owned, progress
\* never decreasing); progress is counted here in chapters.
core_update_stats(job) ==
    /\ threads[job].state = "running"
    /\ stats[job] < Len(threads[job].selected_chapters)
    /\ stats' = [stats EXCEPT ![job] = @ + 1]
    /\ UNCHANGED <<synthesis_in_progress, session, chapter_text, is_selected,
                   selected_chapter, table_status, checkboxes_enabled,
                   start_button_enabled, params_panel_enabled,
                   preview_button_enabled, deviceVars, selectionVars, call_after,
                   threads, event_queue, published, handled,
                   progress_bar, progress_log>>

\* CoreThread.run: "import core" or core.main raises.  run has no handler:
\* the exception ends the thread and nothing is published.
core_raise(job) ==
    /\ threads[job].state = "running"
    /\ threads' = [threads EXCEPT ![job].state = "failed"]
    /\ UNCHANGED <<synthesis_in_progress, session, chapter_text, is_selected,
                   selected_chapter, table_status, checkboxes_enabled,
                   start_button_enabled, params_panel_enabled,
                   preview_button_enabled, deviceVars, selectionVars, statsVars, call_after,
                   event_queue, published, handled>>

\* The wx main loop takes the oldest posted event and calls the handler
\* bound to its type (ui.py:127-131).
Dispatch(type) ==
    /\ event_queue # <<>>
    /\ Head(event_queue).type = type
    /\ event_queue' = Tail(event_queue)
    /\ handled' = [handled EXCEPT ![Head(event_queue).job] = Append(@, Head(event_queue))]

\* MainWindow.on_core_started: shows the progress bar.
on_core_started ==
    /\ Dispatch("CORE_STARTED")
    /\ UNCHANGED <<synthesis_in_progress, session, chapter_text, is_selected,
                   selected_chapter, table_status, checkboxes_enabled,
                   start_button_enabled, params_panel_enabled,
                   preview_button_enabled, deviceVars, selectionVars, statsVars, call_after,
                   threads, published>>

\* MainWindow.on_core_chapter_started
on_core_chapter_started ==
    /\ Dispatch("CORE_CHAPTER_STARTED")
    /\ table_status' = set_table_chapter_status(table_status,
                          Head(event_queue).chapter_index, "In Progress")
    /\ UNCHANGED <<synthesis_in_progress, session, chapter_text, is_selected,
                   selected_chapter, checkboxes_enabled,
                   start_button_enabled, params_panel_enabled,
                   preview_button_enabled, deviceVars, selectionVars, statsVars, call_after,
                   threads, published>>

\* MainWindow.on_core_chapter_finished.  start_button.Show() makes the button
\* visible; it does not enable it.
on_core_chapter_finished ==
    /\ Dispatch("CORE_CHAPTER_FINISHED")
    /\ table_status' = set_table_chapter_status(table_status,
                          Head(event_queue).chapter_index, "Done")
    /\ UNCHANGED <<synthesis_in_progress, session, chapter_text, is_selected,
                   selected_chapter, checkboxes_enabled,
                   start_button_enabled, params_panel_enabled,
                   preview_button_enabled, deviceVars, selectionVars, statsVars, call_after,
                   threads, published>>

\* MainWindow.on_core_progress: updates the progress bar and its labels.
\* post_event stored the stats object it was given with setattr
\* (ui.py:943-945), so event.stats is the worker's object and
\* event.stats.progress is read from it now.
on_core_progress ==
    /\ Dispatch("CORE_PROGRESS")
    /\ progress_bar' = stats[Head(event_queue).job]
    /\ progress_log' = [progress_log EXCEPT ![Head(event_queue).job] = Tail(@)]
    /\ UNCHANGED <<synthesis_in_progress, session, chapter_text, is_selected,
                   selected_chapter, table_status, checkboxes_enabled,
                   start_button_enabled, params_panel_enabled,
                   preview_button_enabled, deviceVars, selectionVars, call_after,
                   threads, published, stats>>

\* MainWindow.on_core_finished
on_core_finished ==
    /\ Dispatch("CORE_FINISHED")
    /\ synthesis_in_progress' = FALSE
    /\ UNCHANGED <<session, chapter_text, is_selected,
                   selected_chapter, table_status, checkboxes_enabled,
                   start_button_enabled, params_panel_enabled,
                   preview_button_enabled, deviceVars, selectionVars, statsVars, call_after,
                   threads, published>>

(***************************************************************************)
(*              ui.py: on_preview_chapter and its worker threads           *)
(***************************************************************************)

\* The states in which a preview thread has ended: generate_preview returned
\* on an empty text, raised, or ran to its last statement.
PreviewEnded == {"returned", "failed", "done"}

\* Preview threads created so far.
npreviews == Cardinality({p \in Previews : preview_workers[p].state # "none"})

\* Preview threads executing generate_preview.
ActivePreviews == {p \in Previews : preview_workers[p].state \in {"started", "synth"}}

\* The variables of the UI no preview step writes.
previewUnchanged ==
    <<synthesis_in_progress, session, chapter_text, is_selected,
      selected_chapter, table_status, checkboxes_enabled,
      start_button_enabled, params_panel_enabled, call_after,
      threads, event_queue, published, handled, deviceVars, selectionVars, statsVars>>

\* A slip: the threads of the list are not waited for.
join_returns_NoWait(thread_list) == TRUE

\* The loop "for thread in self.preview_threads: thread.join()" (ui.py:862-864)
\* gets past its last join: every thread of the list has ended.
join_returns(thread_list) ==
    \A i \in 1..Len(thread_list) : preview_workers[thread_list[i]].state \in PreviewEnded

\* ui.py:865-868: the list is emptied, a new Thread is created, started and
\* appended.
start_preview_thread(waited) ==
    /\ preview_workers' = [preview_workers EXCEPT ![npreviews + 1] =
                              [state |-> "started", button |-> session, waited |-> waited]]
    /\ preview_threads' = <<npreviews + 1>>
    /\ preview_requested' = [preview_requested EXCEPT ![npreviews + 1] =
                                [text |-> chapter_text[session][selected_chapter],
                                 voice |-> get_selected_voice(selected_voice),
                                 speed |-> selected_speed,
                                 lang_code |-> lang_code_of(selected_voice)]]
    /\ UNCHANGED preview_used

\* MainWindow.on_preview_chapter (the Preview button's handler; a disabled
\* button sends no event).  The button is disabled, then the threads of
\* preview_threads are joined: if one of them is still running the main
\* thread blocks there, otherwise the handler runs to its end.
on_preview_chapter ==
    /\ observer_pc = "idle"
    /\ session > 0
    /\ preview_button_enabled
    /\ npreviews < MaxPreviews
    /\ preview_button_enabled' = FALSE
    /\ IF join_returns(preview_threads)
       THEN /\ start_preview_thread(FALSE)
            /\ UNCHANGED observer_pc
       ELSE /\ observer_pc' = "join"
            /\ UNCHANGED <<preview_threads, preview_workers, preview_requested,
                           preview_used>>
    /\ UNCHANGED previewUnchanged

\* on_preview_chapter, blocked in join, goes on when the threads it waits for
\* have ended, and runs to its end.
on_preview_chapter_joined ==
    /\ observer_pc = "join"
    /\ join_returns(preview_threads)
    /\ start_preview_thread(TRUE)
    /\ observer_pc' = "idle"
    /\ UNCHANGED preview_button_enabled
    /\ UNCHANGED previewUnchanged

\* generate_preview, ui.py:840-845, on the preview thread: the pipeline is
\* built, then the text of self.selected_chapter is read (the chapter
\* selected now, not the one selected when the button was pressed); on an
\* empty text the function returns.  Otherwise the arguments of
\* gen_audio_segments are evaluated next (ui.py:846-850), which reads
\* self.selected_voice and self.selected_speed; that is taken as part of the
\* same step.  lang_code is the closure's value.
generate_preview_read(p) ==
    /\ preview_workers[p].state = "started"
    /\ preview_workers' = [preview_workers EXCEPT ![p].state =
                              IF chapter_text[session][selected_chapter] = ""
                              THEN "returned" ELSE "synth"]
    /\ preview_used' = [preview_used EXCEPT ![p] =
                           IF chapter_text[session][selected_chapter] = ""
                           THEN [NoSelection EXCEPT !.text = "",
                                                    !.lang_code = preview_requested[p].lang_code]
                           ELSE [text |-> chapter_text[session][selected_chapter],
                                 voice |-> get_selected_voice(selected_voice),
                                 speed |-> selected_speed,
                                 lang_code |-> preview_requested[p].lang_code]]
    /\ UNCHANGED <<preview_button_enabled, observer_pc, preview_threads,
                   preview_requested>>
    /\ UNCHANGED previewUnchanged

\* generate_preview raises: an import, KPipeline, gen_audio_segments,
\* soundfile.write or subprocess.run (ffplay not installed) fails.  Nothing
\* catches it: the thread ends there.
generate_preview_raise(p) ==
    /\ preview_workers[p].state \in {"started", "synth"}
    /\ preview_workers' = [preview_workers EXCEPT ![p].state = "failed"]
    /\ UNCHANGED <<preview_button_enabled, observer_pc, preview_threads,
                   preview_requested, preview_used>>
    /\ UNCHANGED previewUnchanged

\* generate_preview, ui.py:846-860, on the preview thread: the audio is
\* made and played, then the thread itself calls button.SetLabel and
\* button.Enable().  A button of a layout open_epub has destroyed since
\* raises on the call.
generate_preview_finish(p) ==
    /\ preview_workers[p].state = "synth"
    /\ IF preview_workers[p].button = session
       THEN /\ preview_button_enabled' = TRUE
            /\ preview_workers' = [preview_workers EXCEPT ![p].state = "done"]
       ELSE /\ UNCHANGED preview_button_enabled
            /\ preview_workers' = [preview_workers EXCEPT ![p].state = "failed"]
    /\ UNCHANGED <<observer_pc, preview_threads, preview_requested, preview_used>>
    /\ UNCHANGED previewUnchanged

(***************************************************************************)
(*                            The specifications                           *)
(***************************************************************************)
Init == InitSettings /\ InitUI

NextSettings ==
    \/ \E engine \in EngineNames : CallValidateEngine(engine) /\ UNCHANGED <<uiVars, previewVars>>
    \/ CallGetBestAvailableEngine /\ UNCHANGED <<uiVars, previewVars>>
    \/ \E engine \in EngineNames : set_engine(engine) /\ UNCHANGED <<uiVars, previewVars>>
    \/ get_engine /\ UNCHANGED <<uiVars, previewVars>>
    \/ \E method \in {"get_console_height", "set_console_height"} :
          CallConsoleHeight(method) /\ UNCHANGED <<uiVars, previewVars>>

SpecSettings == Init /\ [][NextSettings]_vars

\* The Settings object with its persistence: setters, save_settings, the
\* close handler that calls them, and later constructions from the file.
NextStore ==
    \/ NextSettings
    \/ CallGetAvailableEngines /\ UNCHANGED <<uiVars, previewVars>>
    \/ \E size \in WindowSizes : set_window_size(size) /\ UNCHANGED <<uiVars, previewVars>>
    \/ \E voice \in VoiceNames : set_voice(voice) /\ UNCHANGED <<uiVars, previewVars>>
    \/ \E speed \in SpeedValues : set_speed(speed) /\ UNCHANGED <<uiVars, previewVars>>
    \/ \E folder \in FolderNames : set_output_folder(folder) /\ UNCHANGED <<uiVars, previewVars>>
    \/ \E io \in SaveOutcomes : save_settings(io) /\ UNCHANGED <<uiVars, previewVars>>
    \/ \E size \in WindowSizes, radio \in {"cpu", "cuda", "apple"}, voice \in VoiceNames,
          speed \in SpeedValues, folder \in FolderNames, io \in SaveOutcomes :
          /\ get_available_engines[radio]
          /\ on_close(size, radio, voice, speed, folder, io)
          /\ UNCHANGED <<uiVars, previewVars>>
    \/ Settings_init /\ UNCHANGED <<uiVars, previewVars>>

SpecStore == Init /\ [][NextStore]_vars

\* Calls that probe the torch runtime, on a machine whose answers may
\* change while the program runs.
NextRuntime ==
    \/ CallGetAvailableEngines /\ UNCHANGED <<uiVars, previewVars>>
    \/ CallGetBestAvailableEngine /\ UNCHANGED <<uiVars, previewVars>>
    \/ \E engine \in EngineNames : CallValidateEngine(engine) /\ UNCHANGED <<uiVars, previewVars>>
    \/ runtime_changes /\ UNCHANGED <<uiVars, previewVars>>

SpecRuntime == Init /\ [][NextRuntime]_vars


\* The UI runs on one Settings object, built once and left alone here.
InitObserver ==
    /\ InitSettings
    /\ settings_file = NoFile
    /\ ~cuda_is_available
    /\ ~mps_is_available
    /\ InitUI

Next ==
    \/ on_open /\ UNCHANGED <<settingsVars, previewVars>>
    \/ \E good_chapters \in (SUBSET Chapters) \ {{}} :
          open_epub(good_chapters) /\ UNCHANGED <<settingsVars, previewVars>>
    \/ \E index \in Chapters : on_table_checked(index) /\ UNCHANGED <<settingsVars, previewVars>>
    \/ \E index \in Chapters : on_table_unchecked(index) /\ UNCHANGED <<settingsVars, previewVars>>
    \/ on_start /\ UNCHANGED <<settingsVars, previewVars>>
    \/ \E job \in Jobs : core_step(job) /\ UNCHANGED <<settingsVars, previewVars>>
    \/ \E job \in Jobs : core_raise(job) /\ UNCHANGED <<settingsVars, previewVars>>
    \/ on_core_started /\ UNCHANGED <<settingsVars, previewVars>>
    \/ on_core_chapter_started /\ UNCHANGED <<settingsVars, previewVars>>
    \/ on_core_chapter_finished /\ UNCHANGED <<settingsVars, previewVars>>
    \/ on_core_progress /\ UNCHANGED <<settingsVars, previewVars>>
    \/ on_core_finished /\ UNCHANGED <<settingsVars, previewVars>>

Spec == InitObserver /\ [][Next]_vars

\* The observer on a machine that has a CUDA device, with the user also
\* choosing the engine with the radio buttons.
InitDevice ==
    /\ InitSettings
    /\ settings_file = NoFile
    /\ cuda_is_available
    /\ ~mps_is_available
    /\ InitUI

NextDevice ==
    \/ Next
    \/ \E engine \in {"cpu", "cuda", "apple"} :
          on_engine_changed(engine) /\ UNCHANGED <<settingsVars, previewVars>>

SpecDevice == InitDevice /\ [][NextDevice]_vars

\* Spec with the worker also updating its statistics object.
NextStats ==
    \/ Next
    \/ \E job \in Jobs : core_update_stats(job) /\ UNCHANGED <<settingsVars, previewVars>>

SpecStats == InitObserver /\ [][NextStats]_vars


\* The same, with the user also selecting rows and editing chapter texts.
NextEdit ==
    \/ Next
    \/ \E index \in Chapters : on_table_selected(index) /\ UNCHANGED <<settingsVars, previewVars>>
    \/ \E value \in {"edited"} : on_text_changed(value) /\ UNCHANGED <<settingsVars, previewVars>>

SpecEdit == InitObserver /\ [][NextEdit]_vars

\* A preview thread takes its next step.
PreviewWorkerReads ==
    \E p \in Previews : generate_preview_read(p) /\ UNCHANGED settingsVars

PreviewWorkerEnds ==
    \E p \in Previews :
        (generate_preview_finish(p) \/ generate_preview_raise(p)) /\ UNCHANGED settingsVars

PreviewJoinReturns == on_preview_chapter_joined /\ UNCHANGED settingsVars

\* The user opens documents, selects rows, empties a chapter's text and asks
\* for previews; no synthesis job is started.  The main thread runs one
\* handler at a time: while it is blocked in on_preview_chapter's join no
\* other handler runs.
NextPreview ==
    \/ observer_pc = "idle" /\ on_open /\ UNCHANGED <<settingsVars, previewVars>>
    \/ \E good_chapters \in (SUBSET Chapters) \ {{}} :
          /\ observer_pc = "idle"
          /\ open_epub(good_chapters)
          /\ UNCHANGED <<settingsVars, previewVars>>
    \/ \E index \in Chapters :
          /\ observer_pc = "idle"
          /\ on_table_selected(index)
          /\ UNCHANGED <<settingsVars, previewVars>>
    \/ observer_pc = "idle" /\ on_text_changed("") /\ UNCHANGED <<settingsVars, previewVars>>
    \/ on_preview_chapter /\ UNCHANGED settingsVars
    \/ PreviewJoinReturns
    \/ PreviewWorkerReads
    \/ PreviewWorkerEnds

SpecPreview == InitObserver /\ [][NextPreview]_vars

\* The same with the scheduling the threads have: a started preview thread
\* goes on until it has ended, and a join returns once the thread joined
\* has ended.  Nothing obliges the user to act.
SpecPreviewFair ==
    /\ InitObserver
    /\ [][NextPreview]_vars
    /\ WF_vars(PreviewWorkerReads)
    /\ WF_vars(PreviewWorkerEnds)
    /\ WF_vars(PreviewJoinReturns)

\* The previews with the user also choosing voice and speed in the
\* parameters panel.  Which rows open_epub checks plays no part in a
\* preview: every document opens with all its chapters checked.
NextPreviewSelect ==
    \/ observer_pc = "idle" /\ on_open /\ UNCHANGED <<settingsVars, previewVars>>
    \/ /\ observer_pc = "idle"
       /\ open_epub(Chapters)
       /\ UNCHANGED <<settingsVars, previewVars>>
    \/ \E index \in Chapters :
          /\ observer_pc = "idle"
          /\ on_table_selected(index)
          /\ UNCHANGED <<settingsVars, previewVars>>
    \/ observer_pc = "idle" /\ on_text_changed("") /\ UNCHANGED <<settingsVars, previewVars>>
    \/ \E voice \in VoiceLabels :
          /\ observer_pc = "idle"
          /\ on_select_voice(voice)
          /\ UNCHANGED <<settingsVars, previewVars>>
    \/ \E speed \in SpeedValues :
          /\ observer_pc = "idle"
          /\ on_select_speed(speed)
          /\ UNCHANGED <<settingsVars, previewVars>>
    \/ on_preview_chapter /\ UNCHANGED settingsVars
    \/ PreviewJoinReturns
    \/ PreviewWorkerReads
    \/ PreviewWorkerEnds

SpecPreviewSelect == InitObserver /\ [][NextPreviewSelect]_vars


(***************************************************************************)
(*                 Properties of the Settings object                       *)
(***************************************************************************)

\* C1: for every requested engine name d, also one outside cpu/cuda/apple,
\* and every capability set, _validate_engine(d) returns d exactly when
\* get_available_engines() has d and marks it available; otherwise it
\* returns get_best_available_engine().
C1_ValidateReturnsRequestedIffAvailable ==
    ret.op = "_validate_engine" =>
        LET d == ret.arg
            available == d \in DOMAIN get_available_engines /\ get_available_engines[d]
        IN  /\ (ret.val = d) <=> available
            /\ ~available => ret.val = get_best_available_engine

\* C1, its case: cuda is requested on a machine without cuda and with mps,
\* and apple is returned.
C1_Witness ==
    /\ ret.op = "_validate_engine"
    /\ ret.arg = "cuda"
    /\ ~cuda_is_available
    /\ mps_is_available
    /\ ret.val = "apple"

\* C2: get_best_available_engine depends on the capability set alone, with
\* priority apple > cuda > cpu: apple whenever mps is available, cuda when
\* cuda is available and mps is not, cpu otherwise.
C2_BestEnginePriority ==
    ret.op = "get_best_available_engine" =>
        /\ mps_is_available => ret.val = "apple"
        /\ (~mps_is_available /\ cuda_is_available) => ret.val = "cuda"
        /\ (~mps_is_available /\ ~cuda_is_available) => ret.val = "cpu"

\* C2, its case: both accelerators are available and apple is returned.
C2_Witness ==
    /\ ret.op = "get_best_available_engine"
    /\ cuda_is_available
    /\ mps_is_available
    /\ ret.val = "apple"

(***************************************************************************)
(*                 Properties of loading the persisted file                *)
(***************************************************************************)

\* The state right after Settings.__init__, that is after _load_settings.
AfterLoad == ret.op = "__init__"

\* The dict found under "window" in the settings, <<>> when the value there
\* is not a dict.
LoadedWindow ==
    IF "window" \notin DOMAIN settings THEN <<>>
    ELSE IF settings["window"].tag = "ref" THEN window_obj
    ELSE IF settings["window"].tag = "dict" THEN settings["window"].items
    ELSE <<>>

\* A file that is a mapping of valid keys to values of the kind the key
\* has: a nested mapping for window, an engine name for engine.
ValidFile ==
    /\ settings_file.parse = "dict"
    /\ "window" \in DOMAIN settings_file.data
          => settings_file.data["window"].tag = "dict"
    /\ "engine" \in DOMAIN settings_file.data
          => settings_file.data["engine"] \in {"cpu", "cuda", "apple"}

\* The best engine of the machine, by the policy apple > cuda > cpu.
BestOnMachine ==
    IF mps_is_available THEN "apple" ELSE IF cuda_is_available THEN "cuda" ELSE "cpu"

\* What validation makes of an engine value on this machine.
ValidatedOnMachine(engine) ==
    IF \/ engine = "cpu"
       \/ engine = "cuda" /\ cuda_is_available
       \/ engine = "apple" /\ mps_is_available
    THEN engine
    ELSE BestOnMachine

\* Every default key is there after the load, the nested ones included.
EveryDefaultKeyPresent ==
    /\ DOMAIN InitialDefaults \subseteq DOMAIN settings
    /\ {"width", "height"} \subseteq DOMAIN LoadedWindow

\* The leaves of the file, those under the given top-level keys aside,
\* override the defaults, and leaves the file does not give keep their
\* default value.
LeavesMerged(aside) ==
    LET data == settings_file.data IN
    /\ \A k \in DOMAIN data \ ({"window"} \cup aside) : settings[k] = data[k]
    /\ \A k \in DOMAIN InitialDefaults \ (DOMAIN data \cup {"window"} \cup aside) :
          settings[k] = InitialDefaults[k]
    /\ \A i \in {"width", "height"} :
          LoadedWindow[i] = IF "window" \in DOMAIN data /\ i \in DOMAIN data["window"].items
                            THEN data["window"].items[i]
                            ELSE InitialWindow[i]

\* C16, as stated: for a file with a subset of the valid keys the loaded
\* structure has every default key, every leaf of the file (engine
\* included) overrides the default leaf, and the other leaves keep their
\* default value.
C16_EveryFileLeafOverrides ==
    (AfterLoad /\ ValidFile) => (EveryDefaultKeyPresent /\ LeavesMerged({}))

\* C16, amended: the same for every leaf but engine; the engine loaded is
\* the validated one: the file's engine (the default one if the file gives
\* none) when this machine has it, the best available engine otherwise.
C16_EveryFileLeafButEngineOverrides ==
    (AfterLoad /\ ValidFile) =>
        /\ EveryDefaultKeyPresent
        /\ LeavesMerged({"engine"})
        /\ settings["engine"] =
              IF "engine" \in DOMAIN settings_file.data
              THEN ValidatedOnMachine(settings_file.data["engine"])
              ELSE BestOnMachine

\* C16, its case: a file giving voice, speed and window.height only has been
\* loaded: the height is the file's, the width the default's.
C16_Witness ==
    /\ AfterLoad
    /\ ValidFile
    /\ DOMAIN settings_file.data = {"window", "voice", "speed"}
    /\ LoadedWindow = [i \in {"width", "height"} |-> IF i = "width" THEN 800 ELSE 768]
    /\ settings["voice"] = "Amy"
    /\ settings["output_folder"] = "cwd"

\* C17: loading never drops a default key: for every file content that
\* parses, one giving a non-mapping value for window included, the loaded
\* configuration has every key of the defaults, window.width and
\* window.height included.
C17_LoadNeverDropsDefaultKey ==
    (AfterLoad /\ settings_file.parse \in {"dict", "scalar"}) => EveryDefaultKeyPresent

\* The fields of Configuration in the data model.
ConfigurationFields ==
    {"window", "console_height", "engine", "voice", "speed", "output_folder"}

\* C18: the configuration in memory always has every Configuration field,
\* and the observer's reads and writes of console_height succeed.
C18_ConfigurationComplete ==
    /\ ConfigurationFields \subseteq DOMAIN settings
    /\ {"width", "height"} \subseteq DOMAIN LoadedWindow
    /\ ret.op \in {"get_console_height", "set_console_height"} => ret.val # "AttributeError"

\* C19: a load that failed (the warning was printed) returns pure defaults:
\* the default values computed at construction, nothing from the file.
C19_FailedLoadGivesPureDefaults ==
    (AfterLoad /\ ret.val = "Warning") =>
        /\ settings = InitialDefaults
        /\ LoadedWindow = InitialWindow

\* C20: after load the engine is validate(persisted engine): without a file,
\* or without an engine in it, the best available engine (cpu when neither
\* cuda nor apple is available); a persisted engine this machine has is
\* kept, one it does not have is replaced by the best available engine.
C20_LoadedEngineIsValidated ==
    AfterLoad =>
        settings["engine"] =
            IF settings_file.parse = "dict" /\ "engine" \in DOMAIN settings_file.data
            THEN ValidatedOnMachine(settings_file.data["engine"])
            ELSE BestOnMachine

\* C20, its case: the file says cuda, the machine has apple and no cuda, and
\* apple is loaded.
C20_Witness ==
    /\ AfterLoad
    /\ settings_file.parse = "dict"
    /\ "engine" \in DOMAIN settings_file.data
    /\ settings_file.data["engine"] = "cuda"
    /\ ~cuda_is_available
    /\ mps_is_available
    /\ settings["engine"] = "apple"

(***************************************************************************)
(*                 Properties of the job orchestration                     *)
(***************************************************************************)

\* The events of one job among a sequence of events.
OfJob(events, job) == SelectSeq(events, LAMBDA e : e.job = job)

\* The chapter events among a sequence of events.
ChapterEvents(events) ==
    SelectSeq(events, LAMBDA e : e.type \in {"CORE_CHAPTER_STARTED", "CORE_CHAPTER_FINISHED"})

\* A CoreThread that has ended, all of whose events have been handled.
Settled(job) ==
    /\ threads[job].state \in {"finished", "failed"}
    /\ OfJob(event_queue, job) = <<>>

\* C3: at most one CoreThread is active at any instant.
C3_AtMostOneActiveWorker == Cardinality(RunningJobs) <= 1

\* C4: a start request made while a job is running spawns no worker: no step
\* taken while a CoreThread is running creates another CoreThread.
C4_StartWhileRunningRefused ==
    [][RunningJobs # {} => nthreads' = nthreads]_vars

\* C5: once on_core_finished has run (the step that clears
\* synthesis_in_progress) the start control is enabled again, so that a new
\* job can be started on the same session.
C5_StartEnabledAfterFinished ==
    [][(synthesis_in_progress /\ ~synthesis_in_progress') => start_button_enabled']_vars

\* C6: every job that was started delivers exactly one CORE_FINISHED, also
\* when the worker failed: once a job's thread has ended and its events are
\* handled, the observer has handled exactly one CORE_FINISHED of it, and
\* with every job so settled synthesis_in_progress is false.
C6_EveryJobDeliversFinished ==
    /\ \A j \in Jobs :
          Settled(j) =>
              Len(SelectSeq(handled[j], LAMBDA e : e.type = "CORE_FINISHED")) = 1
    /\ (nthreads > 0 /\ \A j \in Jobs : threads[j].state # "none" => Settled(j))
          => ~synthesis_in_progress

\* C7: per job, every published event is handled exactly once and in the
\* order of publication: what was published is what was handled followed by
\* what is still queued.
C7_FifoExactlyOnce ==
    \A j \in Jobs : published[j] = handled[j] \o OfJob(event_queue, j)

\* C7, its case: a worker has published two events while the observer had
\* not handled the first of them, after the observer handled earlier ones.
C7_Witness ==
    \E j \in Jobs :
        /\ Len(OfJob(event_queue, j)) >= 2
        /\ Len(handled[j]) >= 1

\* C8: per job, the chapter events handled alternate started/finished: a
\* finished event follows the started event of the same chapter, and no
\* chapter is started twice.
C8_ChapterEventsAlternate ==
    \A j \in Jobs :
        LET ch == ChapterEvents(handled[j])
        IN  \A i \in 1..Len(ch) :
                IF i % 2 = 1
                THEN /\ ch[i].type = "CORE_CHAPTER_STARTED"
                     /\ \A k \in 1..(i - 1) : ch[k].chapter_index # ch[i].chapter_index
                ELSE /\ ch[i].type = "CORE_CHAPTER_FINISHED"
                     /\ ch[i].chapter_index = ch[i - 1].chapter_index

\* C8, its case: the observer has handled the started and finished events of
\* two chapters of one job.
C8_Witness ==
    \E j \in Jobs : Len(ChapterEvents(handled[j])) >= 4

\* The events claim C9 expects of a job with the given chapters, progress
\* events aside.
ExpectedLifecycle(selected_chapters) ==
    LET pairs[n \in 0..Len(selected_chapters)] ==
            IF n = 0 THEN <<>>
            ELSE pairs[n - 1] \o <<<<"CORE_CHAPTER_STARTED", selected_chapters[n]>>,
                                   <<"CORE_CHAPTER_FINISHED", selected_chapters[n]>>>>
    IN  <<<<"CORE_STARTED", 0>>>> \o pairs[Len(selected_chapters)] \o <<<<"CORE_FINISHED", 0>>>>

\* The events handled for a job, progress events aside, as (type, chapter).
Lifecycle(job) ==
    LET kept == SelectSeq(handled[job], LAMBDA e : e.type # "CORE_PROGRESS")
    IN  [i \in 1..Len(kept) |-> <<kept[i].type, kept[i].chapter_index>>]

\* C9: for a job committed with N included chapters the observer handles one
\* CORE_STARTED first, then the N started/finished pairs in document order,
\* then one CORE_FINISHED last, and nothing of the job after it.
C9_CompleteLifecycleInDocumentOrder ==
    \A j \in Jobs :
        Settled(j) => Lifecycle(j) = ExpectedLifecycle(threads[j].selected_chapters)

\* What holds of C9 on the code: at every moment the events handled for a job
\* are an initial part of the expected ones, the chapters in document order.
LifecyclePrefix ==
    \A j \in Jobs :
        threads[j].state # "none" =>
            LET exp == ExpectedLifecycle(threads[j].selected_chapters)
                got == Lifecycle(j)
            IN  /\ Len(got) <= Len(exp)
                /\ \A i \in 1..Len(got) : got[i] = exp[i]
                /\ \A i \in 1..(Len(threads[j].selected_chapters) - 1) :
                      threads[j].selected_chapters[i] < threads[j].selected_chapters[i + 1]

\* C10: job parameters are a snapshot: while a job is running, no step
\* changes the text its worker is going to synthesize for a chapter of the
\* job it has not read yet.
C10_EditDoesNotReachRunningJob ==
    [][\A j \in Jobs :
          \A i \in 1..Len(threads[j].selected_chapters) :
             LET c == threads[j].selected_chapters[i]
             IN  (threads[j].state = "running" /\ threads[j].text_read[c] = "unread")
                    => chapter_text'[threads[j].doc][c] = chapter_text[threads[j].doc][c]]_vars

(***************************************************************************)
(*                 Properties of the chapter status column                 *)
(***************************************************************************)

\* The place of a status on the way Pending, Planned, In Progress, Done.
StatusRank(status) ==
    CASE status = Pending       -> 0
      [] status = "Planned"     -> 1
      [] status = "In Progress" -> 2
      [] status = "Done"        -> 3

\* The elements of a sequence.
Range(seq) == {seq[i] : i \in 1..Len(seq)}

\* C11: within a document session the status of a chapter only moves forward
\* along Pending, Planned, In Progress, Done: no step that stays in the
\* session (start requests and handled events are such steps) takes a row of
\* the table back to an earlier status, a Done row least of all.
C11_StatusOnlyMovesForward ==
    [][session' = session =>
          \A c \in Chapters :
              StatusRank(table_status'[c]) >= StatusRank(table_status[c])]_vars

\* C12: a chapter not included when a job is committed is not touched by
\* that job: the on_start that creates the job leaves its status alone, and
\* so does the handling of every event of the job.
C12_ExcludedChapterUntouchedByJob ==
    [][/\ nthreads' = nthreads + 1 =>
             \A c \in Chapters :
                 c \notin Range(threads'[nthreads + 1].selected_chapters)
                     => table_status'[c] = table_status[c]
       /\ (event_queue # <<>> /\ handled' # handled) =>
             \A c \in Chapters :
                 c \notin Range(threads[Head(event_queue).job].selected_chapters)
                     => table_status'[c] = table_status[c]]_vars

\* C12, its case: a job committed on the document now shown, with a chapter
\* left out, has run to its end and all its events are handled; the chapter
\* left out is Pending while an included one is Done.
C12_Witness ==
    \E j \in Jobs :
        /\ threads[j].state = "finished"
        /\ Settled(j)
        /\ threads[j].doc = session
        /\ \E c \in Chapters :
              /\ c \notin Range(threads[j].selected_chapters)
              /\ table_status[c] = Pending
        /\ \E c \in Range(threads[j].selected_chapters) : table_status[c] = "Done"

(***************************************************************************)
(*                       Properties of the previews                        *)
(***************************************************************************)

\* C13: preview runs never overlap: at most one preview thread is executing
\* generate_preview, and preview_threads holds at most one thread.
C13_PreviewsNeverOverlap ==
    /\ Cardinality(ActivePreviews) <= 1
    /\ Len(preview_threads) <= 1

\* C13, its case: a preview thread is running whose on_preview_chapter had
\* to wait in join for the thread before it.
C13_Witness ==
    \E p \in ActivePreviews :
        /\ preview_workers[p].waited
        /\ \E q \in Previews : q # p /\ preview_workers[q].state \in PreviewEnded

\* C14: after every preview request the Preview button becomes enabled
\* again, whatever the outcome of the preview thread: a disabled button of
\* an opened document leads to an enabled one.
C14_PreviewButtonEnabledAgain ==
    (session > 0 /\ ~preview_button_enabled) ~> preview_button_enabled

\* The state the observer owns: the window's fields and widgets and the
\* chapter objects.
observerOwned ==
    <<synthesis_in_progress, session, chapter_text, is_selected,
      selected_chapter, table_status, checkboxes_enabled,
      start_button_enabled, params_panel_enabled, preview_button_enabled, deviceVars, selectionVars, statsVars,
      preview_threads>>

\* C15: observer-owned state is changed on the observer's thread only: a
\* step of a worker thread (a running preview thread or CoreThread going on)
\* changes nothing of it.
C15_WorkersLeaveObserverStateAlone ==
    [][((\E p \in ActivePreviews : preview_workers'[p] # preview_workers[p])
          \/ (\E j \in RunningJobs : threads'[j] # threads[j]))
        => UNCHANGED observerOwned]_vars

(***************************************************************************)
(*                 Settings store: persistence (SpecStore)                 *)
(***************************************************************************)

\* C21: the persisted file is written only by an explicit save: a step that
\* changes the content of the file is a call of save_settings (directly, or
\* by the close handler when it gets that far); construction, the load with
\* its engine substitution, getters and setters leave the file as it is.
C21_OnlySaveWritesTheFile ==
    [][settings_file' # settings_file =>
          \/ ret'.op = "save_settings"
          \/ ret'.op = "on_close" /\ ret'.val = ""]_vars

\* The load replaced the file's unavailable engine, a setter changed the
\* voice, and the file still says what it said.
C21_Witness ==
    /\ ret.op = "set_voice"
    /\ settings_file = YamlFile([k \in {"engine"} |-> "cuda"])
    /\ settings["engine"] = "cpu"
    /\ settings["voice"] = "Amy"

\* C22: save_settings returns False when a file operation fails and True
\* when all succeed; either way self.settings, the window object and
\* self.defaults are what they were, and on success the file holds the dump
\* of the settings.
C22_SaveReportsFailure ==
    [][ret'.op = "save_settings" =>
          /\ settings' = settings
          /\ window_obj' = window_obj
          /\ defaults' = defaults
          /\ ret'.val = (IF ret'.arg = "ok" THEN "True" ELSE "False")
          /\ ret'.arg = "ok" => settings_file' = dump_settings(settings, window_obj)]_vars

\* A save whose write failed after the file was truncated: False returned,
\* the voice set before is still in memory.
C22_Witness ==
    /\ ret.op = "save_settings"
    /\ ret.arg = "write_fails"
    /\ ret.val = "False"
    /\ settings["voice"] = "Amy"
    /\ settings_file = YamlFile(<<>>)

\* C24: the capability set has cpu = true and is the same at every query:
\* a call of get_available_engines yields cpu true and the set the call
\* before it yielded, whatever the torch runtime answers in between.
C24_SameSetAtEveryQuery ==
    [][ret'.op = "get_available_engines" =>
          /\ ret'.val["cpu"]
          /\ ret.op = "get_available_engines" => ret'.val = ret.val]_vars

\* C25: for e in cpu, cuda, apple, get_engine() called after set_engine(e)
\* returns _validate_engine(e).
C25_GetAfterSetIsValidated ==
    [][(/\ ret.op = "set_engine"
        /\ ret.arg \in {"cpu", "cuda", "apple"}
        /\ ret'.op = "get_engine") => ret'.val = validate_engine(ret.arg)]_vars

\* set_engine("cuda") on a machine with apple and no cuda stored apple.
C25_Witness ==
    /\ ret.op = "set_engine"
    /\ ret.arg = "cuda"
    /\ ~cuda_is_available
    /\ mps_is_available
    /\ settings["engine"] = "apple"

\* C28: closing the window saves the settings: after on_close, unless the
\* file write failed, save_settings was reached and the file holds the
\* settings as the close handler set them (window size, engine, voice,
\* speed, output folder).
C28_CloseSavesSettings ==
    (ret.op = "on_close" /\ ret.arg = "ok") =>
        /\ ret.val = ""
        /\ settings_file = dump_settings(settings, window_obj)
        /\ settings["voice"] \in VoiceNames
        /\ settings["speed"] \in SpeedValues
        /\ settings["output_folder"] \in FolderNames

\* C29: the stored engine is always one the machine has: cpu, or cuda or
\* apple with the runtime reporting it available.
C29_StoredEngineAvailable ==
    /\ "engine" \in DOMAIN settings
    /\ \/ settings["engine"] = "cpu"
       \/ settings["engine"] = "cuda" /\ cuda_is_available
       \/ settings["engine"] = "apple" /\ mps_is_available

\* set_engine("cuda") on a machine with neither accelerator stored cpu.
C29_Witness ==
    /\ ret.op = "set_engine"
    /\ ret.arg = "cuda"
    /\ ~cuda_is_available
    /\ ~mps_is_available
    /\ settings["engine"] = "cpu"

\* C30: self.defaults never changes after construction: its values, the
\* content of its window dict included, are those of the dict literal of
\* __init__.
C30_DefaultsNeverChange ==
    /\ defaults = InitialDefaults
    /\ defaults["window"] = WindowRef => window_obj = InitialWindow

(***************************************************************************)
(*                 Device selection and job statistics                     *)
(***************************************************************************)

\* A job that was started and whose CORE_FINISHED has not been handled.
JobActive(job) ==
    /\ threads[job].state # "none"
    /\ \A i \in 1..Len(handled[job]) : handled[job][i].type # "CORE_FINISHED"

\* C23: the device cannot be switched while a job is running: from on_start
\* until the job's CORE_FINISHED is handled the parameters panel with the
\* engine radio buttons is disabled and no step changes torch's default
\* device.
C23_NoDeviceSwitchDuringJob ==
    [][(\E job \in Jobs : JobActive(job)) =>
          /\ ~params_panel_enabled
          /\ default_device' = default_device]_vars

\* C26: Pending -> Planned is atomic at commit: no CORE_CHAPTER_STARTED of
\* a job is handled while the table shows one of the job's chapters as
\* Pending, and no row becomes Planned while a job is running.
C26_PlannedAtomicAtCommit ==
    [][/\ (/\ event_queue # <<>>
           /\ Head(event_queue).type = "CORE_CHAPTER_STARTED"
           /\ handled' # handled)
          => \A c \in Range(threads[Head(event_queue).job].selected_chapters) :
                table_status[c] # Pending
       /\ RunningJobs # {}
          => \A c \in Chapters :
                table_status'[c] = "Planned" => table_status[c] = "Planned"]_vars

\* C27: an event's payload is what it was at publication: the progress the
\* observer reads when it handles a CORE_PROGRESS event is the progress the
\* worker's statistics had when the event was published, whatever the
\* worker has done to its statistics since.
C27_ProgressReadIsProgressPublished ==
    [][(/\ event_queue # <<>>
        /\ Head(event_queue).type = "CORE_PROGRESS"
        /\ handled' # handled)
          => progress_bar' = Head(progress_log[Head(event_queue).job])]_vars

(***************************************************************************)
(*               Opening documents and the in-progress flag                *)
(***************************************************************************)

\* C31: a new document is never opened while a job is in progress: every
\* step in which open_epub runs (it alone starts a document session) starts
\* in a state where synthesis_in_progress is false.
C31_OpenOnlyWhenNoJobInProgress ==
    [][session' # session => ~synthesis_in_progress]_vars

\* C32: synthesis_in_progress is true in every state in which a CoreThread
\* is running.
C32_FlagTrueWhileWorkerRuns ==
    RunningJobs # {} => synthesis_in_progress

(***************************************************************************)
(*                    What a preview synthesizes                           *)
(***************************************************************************)

\* C33: a preview synthesizes what was selected when it was requested: the
\* text generate_preview has read is the text of the chapter selected when
\* on_preview_chapter ran, and the voice and speed it has read, where it
\* got that far, are those selected then (so the voice also agrees with the
\* language code derived at the request).
C33_PreviewUsesSelectionAtRequest ==
    \A p \in Previews :
        preview_used[p].text # "unread" =>
            /\ preview_used[p].text = preview_requested[p].text
            /\ preview_used[p].voice # "unread" =>
                  /\ preview_used[p].voice = preview_requested[p].voice
                  /\ preview_used[p].speed = preview_requested[p].speed

=============================================================================
